---------------------------- MODULE Spec2Model ----------------------------
(***************************************************************************)
(* ReelDeal: a movie recommender.  data_updater.py builds a corpus table   *)
(* and a FAISS inner-product index, update_and_release.py publishes the    *)
(* artifacts to a GitHub release, app.py loads them and serves             *)
(* recommend().                                                            *)
(*                                                                         *)
(* Spec       the build -> save -> load -> recommend pipeline, TMDb        *)
(*            answering every poster lookup.                               *)
(* SpecTMDb   the same pipeline with poster lookups that can fail.         *)
(* SpecStore  the artifact files and the release, with the updater and the *)
(*            serving process interleaved file by file.                    *)
(* SpecRetry  one call of fetch_with_retry or of fetch_poster against a    *)
(*            scripted server.                                             *)
(*                                                                         *)
(* Row positions are 0-based as in pandas and FAISS; the row at position p *)
(* of a table or of the index is element p + 1 of the sequence that models *)
(* it.  Scores are compared in exact arithmetic: equal scores are ties,    *)
(* and the library's order among ties is left open.                        *)
(***************************************************************************)
EXTENDS Integers, Sequences, FiniteSets, TLC

VARIABLES
    pc,         \* updater script position (data_updater.py __main__)
    fetched,    \* the table returned by fetch_movies_from_tmdb
    df,         \* processed_df: rows [label, movie_id, title, tags]
    index,      \* the in-memory FAISS index of the updater
    disk,       \* data/ of the pipeline: file name -> content
    app,        \* serving process: "down", "stopped" or "serving"
    movies_df,  \* the table load_data_from_github returned
    faiss_index,\* the index load_data_from_github returned
    rec,        \* the last call of recommend: arguments, trace and result
    dirs,       \* SpecStore: directory -> file name -> file
    app_dir,    \* SpecStore: the directory that is data/ for the app
    release,    \* SpecStore: the GitHub release of the tag
    upd,        \* SpecStore: update_and_release.main, step by step
    ldr,        \* SpecStore: load_data_from_github, step by step
    retry       \* SpecRetry: one call of fetch_with_retry or fetch_poster

recVars == <<pc, fetched, df, index, disk, app, movies_df, faiss_index, rec>>

storeVars == <<dirs, app_dir, release, upd, ldr>>

retryVars == <<retry>>

-----------------------------------------------------------------------------
(* Bounds and input domains *)

MaxFetched == 3
MaxK == 2

TermList == <<"space", "love">>
Terms == {TermList[i] : i \in 1..Len(TermList)}
Titles == {"A", "B"}
UnknownTitle == "X"

FILES == <<"movies_dict.pkl", "movies.index", "vectorizer.pkl">>

-----------------------------------------------------------------------------
(* Sequence helpers *)

Range(s) == {s[i] : i \in 1..Len(s)}

RECURSIVE SeqFilter(_, _)
SeqFilter(s, keep) ==
    IF s = <<>> THEN <<>>
    ELSE IF keep[1] THEN <<s[1]>> \o SeqFilter(Tail(s), Tail(keep))
         ELSE SeqFilter(Tail(s), Tail(keep))

Permutations0(n) ==
    {p \in [1..n -> 0..(n - 1)] : \A i, j \in 1..n : i # j => p[i] # p[j]}

-----------------------------------------------------------------------------
(* fetch_movies_from_tmdb: the records TMDb can return.  overview is null   *)
(* (na) or a text; the list fields are empty here, so the tag string is    *)
(* the overview's tokens.                                                  *)

\* what TMDb says about one movie
MovieDetails ==
    {[title |-> t, overview_na |-> FALSE, overview |-> o] :
        t \in Titles, o \in SUBSET Terms}
    \cup {[title |-> "A", overview_na |-> TRUE, overview |-> {}]}

\* movies_data: one record per movie, in fetch order, with distinct ids
FetchedTables ==
    UNION {{[i \in 1..n |->
                [movie_id |-> 100 + i, title |-> t[i].title,
                 overview_na |-> t[i].overview_na, overview |-> t[i].overview]] :
            t \in [1..n -> MovieDetails]} : n \in 0..MaxFetched}

-----------------------------------------------------------------------------
(* preprocess_data *)

\* df.dropna(): rows with a missing value go, the others keep their labels
dropna(t) ==
    SeqFilter([i \in 1..Len(t) |->
                  [label |-> i - 1, movie_id |-> t[i].movie_id,
                   title |-> t[i].title, overview |-> t[i].overview]],
              [i \in 1..Len(t) |-> ~t[i].overview_na])

preprocess(t) ==
    LET d == dropna(t)
    IN [i \in 1..Len(d) |->
            [label |-> d[i].label, movie_id |-> d[i].movie_id,
             title |-> d[i].title, tags |-> d[i].overview]]

-----------------------------------------------------------------------------
(* build_faiss_index *)

\* CountVectorizer.fit: the vocabulary is the terms of the corpus
Vocabulary(d) == UNION {d[i].tags : i \in 1..Len(d)}

\* one count row per table row, in table order (index.add keeps the order)
CountVector(tags) == [t \in Terms |-> IF t \in tags THEN 1 ELSE 0]

Vectors(d) == [i \in 1..Len(d) |-> CountVector(d[i].tags)]

RECURSIVE DotFrom(_, _, _)
DotFrom(a, b, i) ==
    IF i > Len(TermList) THEN 0
    ELSE a[TermList[i]] * b[TermList[i]] + DotFrom(a, b, i + 1)

Dot(a, b) == DotFrom(a, b, 1)

Norm2(a) == Dot(a, a)

\* faiss.normalize_L2 leaves a zero row as it is: its inner products are 0.
\* For rows a, b and a query q the inner products of the normalised rows
\* compare as Dot(q,a)^2 / Den(a) against Dot(q,b)^2 / Den(b).
Den(a) == IF Norm2(a) = 0 THEN 1 ELSE Norm2(a)

IPPositive(q, a) == Dot(q, a) > 0

\* mutant: the hits come back in no score order
Ranked_unsorted(vs, q) == Permutations0(Len(vs))

\* The orders in which IndexFlatIP can rank the stored rows vs for a query q:
\* by descending inner product; the order among equal scores is the
\* library's and is left open.
Ranked(vs, q) ==
    LET num == [i \in 1..Len(vs) |-> Dot(q, vs[i]) * Dot(q, vs[i])]
        den == [i \in 1..Len(vs) |-> Den(vs[i])]
    IN {p \in Permutations0(Len(vs)) :
           \A i \in 1..(Len(vs) - 1) :
               ~(num[p[i + 1] + 1] * den[p[i] + 1]
                    > num[p[i] + 1] * den[p[i + 1] + 1])}

\* index.search(q, k): the min(k, ntotal) best positions, then -1 for every
\* place that has no result
search(vs, q, k) ==
    {[i \in 1..k |-> IF i <= Len(vs) THEN p[i] ELSE -1] : p \in Ranked(vs, q)}

\* index.reconstruct(i) raises unless 0 <= i < ntotal
reconstruct_ok(vs, i) == i >= 0 /\ i < Len(vs)

reconstruct(vs, i) == vs[i + 1]

-----------------------------------------------------------------------------
(* save_data and the load of load_data_from_github *)

\* df.to_dict(): per column a dict label -> value; the row order is not kept
to_dict(d) ==
    [l \in {d[i].label : i \in 1..Len(d)} |->
        LET r == d[CHOOSE i \in 1..Len(d) : d[i].label = l]
        IN [movie_id |-> r.movie_id, title |-> r.title, tags |-> r.tags]]

\* pd.DataFrame(movies_dict): one row per key, the keys become the labels
RECURSIVE DataFrame(_)
DataFrame(m) ==
    IF DOMAIN m = {} THEN <<>>
    ELSE LET l == CHOOSE x \in DOMAIN m : \A y \in DOMAIN m : x <= y
         IN <<[label |-> l, movie_id |-> m[l].movie_id, title |-> m[l].title,
               tags |-> m[l].tags]>>
            \o DataFrame([y \in DOMAIN m \ {l} |-> m[y]])

-----------------------------------------------------------------------------
(* fetch_poster *)

\* requests.exceptions.RequestException and its subclasses
RequestException == {"ConnectionError", "Timeout", "HTTPError"}

POSTER_RETRIES == 5

RECURSIVE Pow2(_)
Pow2(n) == IF n = 0 THEN 1 ELSE 2 * Pow2(n - 1)

\* for i in range(5), from attempt i on, under the scripted answers s
RECURSIVE fetch_poster_from(_, _, _)
fetch_poster_from(s, i, sleeps) ==
    IF i >= POSTER_RETRIES
    THEN [value |-> "None", raised |-> FALSE, attempts |-> i, sleeps |-> sleeps]
    ELSE IF s[i + 1] = "poster"
    THEN [value |-> "poster_url", raised |-> FALSE, attempts |-> i + 1,
          sleeps |-> sleeps]
    ELSE IF s[i + 1] = "no_poster_path"
    THEN [value |-> "None", raised |-> FALSE, attempts |-> i + 1,
          sleeps |-> sleeps]
    ELSE IF s[i + 1] \in RequestException
    THEN IF i < POSTER_RETRIES - 1
         THEN fetch_poster_from(s, i + 1, Append(sleeps, Pow2(i)))
         ELSE [value |-> "None", raised |-> FALSE, attempts |-> i + 1,
               sleeps |-> sleeps]
    ELSE [value |-> "None", raised |-> TRUE, attempts |-> i + 1,
          sleeps |-> sleeps]

fetch_poster(s) == fetch_poster_from(s, 0, <<>>)

Always(a) == [i \in 1..POSTER_RETRIES |-> a]

\* The answers TMDb can give to one lookup that does not go plainly
PosterScripts ==
    {Always("no_poster_path"), Always("ConnectionError"), Always("HTTPError"),
     Always("AttributeError"),
     [i \in 1..POSTER_RETRIES |-> IF i <= 2 THEN "ConnectionError" ELSE "poster"]}

\* TMDb during one call of recommend that makes up to n lookups: script by
\* lookup, in call order; at most one lookup does not go plainly
PlainEnvs(n) == {[i \in 1..n |-> Always("poster")]}

PosterEnvs(n) ==
    PlainEnvs(n)
    \cup {[i \in 1..n |-> IF i = bad THEN s ELSE Always("poster")] :
             bad \in 1..n, s \in PosterScripts}

-----------------------------------------------------------------------------
(* fetch_with_retry *)

MaxRetries == 5

\* mutant: the delay no longer grows with the attempt
wait_time_fixed(attempt) == 3

\* wait_time = (2 ** attempt) + 0.5, in half seconds
wait_time(attempt) == 2 * Pow2(attempt) + 1

\* for attempt in range(max_retries), from this attempt on, under the
\* scripted answers s
RECURSIVE fetch_with_retry_from(_, _, _, _)
fetch_with_retry_from(s, max_retries, attempt, sleeps) ==
    IF attempt >= max_retries
    THEN [value |-> "None", raised |-> FALSE, attempts |-> attempt,
          sleeps |-> sleeps]
    ELSE IF s[attempt + 1] = "json"
    THEN [value |-> "json", raised |-> FALSE, attempts |-> attempt + 1,
          sleeps |-> sleeps]
    ELSE IF s[attempt + 1] \in RequestException
    THEN IF attempt < max_retries - 1
         THEN fetch_with_retry_from(s, max_retries, attempt + 1,
                                    Append(sleeps, wait_time(attempt)))
         ELSE [value |-> "None", raised |-> FALSE, attempts |-> attempt + 1,
               sleeps |-> sleeps]
    ELSE [value |-> "None", raised |-> TRUE, attempts |-> attempt + 1,
          sleeps |-> sleeps]

fetch_with_retry(s, max_retries) == fetch_with_retry_from(s, max_retries, 0, <<>>)

\* what session.get(url), raise_for_status() and response.json() can do
FetchAnswers == {"json", "ConnectionError", "Timeout", "HTTPError", "ValueError"}

\* what requests.get(url), raise_for_status(), response.json() and
\* data.get('poster_path') can do
PosterAnswers == {"poster", "no_poster_path", "ConnectionError", "Timeout",
                  "HTTPError", "AttributeError"}

NoResult == [value |-> "None", raised |-> FALSE, attempts |-> 0, sleeps |-> <<>>]

NoCall == [fn |-> "none", script |-> <<>>, max_retries |-> 0, done |-> FALSE,
           result |-> NoResult]

\* the calls of the two functions, one answer scripted per attempt
RetryCalls ==
    UNION {{[fn |-> "fetch_with_retry", script |-> s, max_retries |-> n,
             done |-> FALSE, result |-> NoResult] :
               s \in [1..n -> FetchAnswers]} : n \in 0..MaxRetries}
    \cup {[fn |-> "fetch_poster", script |-> s, max_retries |-> POSTER_RETRIES,
            done |-> FALSE, result |-> NoResult] :
              s \in [1..POSTER_RETRIES -> PosterAnswers]}

-----------------------------------------------------------------------------
(* recommend *)

\* mutant: the title filter is lost, every row matches
movie_indices_unfiltered(d, movie) == [i \in 1..Len(d) |-> d[i].label]

\* movies_df[movies_df['title'] == movie].index: the labels of the matches
movie_indices(d, movie) ==
    LET m == SeqFilter(d, [i \in 1..Len(d) |-> d[i].title = movie])
    IN [i \in 1..Len(m) |-> m[i].label]

\* the row position of the first match, -1 when there is none
FirstPosition(d, movie) ==
    IF \E i \in 1..Len(d) : d[i].title = movie
    THEN (CHOOSE i \in 1..Len(d) :
             d[i].title = movie /\ \A j \in 1..(i - 1) : d[j].title # movie) - 1
    ELSE -1

\* movies_df.iloc[idx]: a negative idx counts from the end
iloc_ok(d, idx) == idx >= -Len(d) /\ idx < Len(d)

iloc_pos(d, idx) == IF idx < 0 THEN Len(d) + idx ELSE idx

\* for idx in recommended_indices: ...  from element i on
RECURSIVE recommend_loop(_, _, _, _, _)
recommend_loop(d, idxs, env, i, acc) ==
    IF i > Len(idxs) THEN acc
    ELSE IF ~iloc_ok(d, idxs[i]) THEN [acc EXCEPT !.raised = TRUE]
    ELSE LET row == d[iloc_pos(d, idxs[i]) + 1]
             p == fetch_poster(env[i])
             acc1 == [acc EXCEPT !.rows = Append(@, iloc_pos(d, idxs[i])),
                                 !.names = Append(@, row.title),
                                 !.fetch_poster = @ + 1]
         IN IF p.raised THEN [acc1 EXCEPT !.raised = TRUE]
            ELSE recommend_loop(d, idxs, env, i + 1,
                                [acc1 EXCEPT !.posters = Append(@, p.value)])

\* indices[0][1:k+1]
recommended_indices(h, k) == SubSeq(h, 2, IF k + 1 <= Len(h) THEN k + 1 ELSE Len(h))

NoCalls == [reconstruct |-> 0, search |-> 0, fetch_poster |-> 0, st_error |-> 0]

EmptyResult == <<<<>>, <<>>>>

NoRecommend ==
    [movie |-> "", k |-> 0, outcome |-> "none", query_pos |-> -1,
     reconstruct_arg |-> -1, hits |-> <<>>, rows |-> <<>>, names |-> <<>>,
     result |-> EmptyResult, calls |-> NoCalls, raised |-> FALSE]

\* recommend(movie, movies_df, index, k) with the search result h and TMDb env
recommend(movie, d, vs, k, h, env) ==
    LET found == movie_indices(d, movie)
        base == [NoRecommend EXCEPT !.movie = movie, !.k = k,
                                    !.query_pos = FirstPosition(d, movie)]
    IN IF Len(found) = 0
       THEN [base EXCEPT !.outcome = "NotFound", !.result = EmptyResult]
       ELSE IF ~reconstruct_ok(vs, found[1])
       THEN [base EXCEPT !.outcome = "Error", !.result = EmptyResult,
                         !.reconstruct_arg = found[1],
                         !.calls = [NoCalls EXCEPT !.reconstruct = 1,
                                                   !.st_error = 1]]
       ELSE LET loop == recommend_loop(d, recommended_indices(h, k), env, 1,
                            [raised |-> FALSE, rows |-> <<>>, names |-> <<>>,
                             posters |-> <<>>, fetch_poster |-> 0])
                seen == [base EXCEPT !.reconstruct_arg = found[1], !.hits = h,
                                     !.rows = loop.rows, !.names = loop.names,
                                     !.calls = [NoCalls EXCEPT
                                         !.reconstruct = 1, !.search = 1,
                                         !.fetch_poster = loop.fetch_poster]]
            IN IF loop.raised
               THEN [seen EXCEPT !.outcome = "Error", !.result = EmptyResult,
                                 !.calls.st_error = 1]
               ELSE [seen EXCEPT !.outcome = "Ok",
                                 !.result = <<loop.names, loop.posters>>]

-----------------------------------------------------------------------------
(* Files, directories and the release *)

MaxBuilds == 2

\* a file or a release asset: which build wrote it, and whether it is whole
NoFile == [exists |-> FALSE, b |-> 0, ok |-> FALSE]

Whole(b) == [exists |-> TRUE, b |-> b, ok |-> TRUE]

\* open(path, 'wb') has truncated the file, the content is not there yet
Truncated == [exists |-> TRUE, b |-> 0, ok |-> FALSE]

\* the body of a 404 answer, written as if it were the asset
NotFoundBody == [exists |-> TRUE, b |-> 0, ok |-> FALSE]

FileNames == Range(FILES)

EmptyDir == [f \in FileNames |-> NoFile]

UpdIdle == [pc |-> "idle", build |-> 0, i |-> 1, existing |-> {}]

LdrIdle == [pc |-> "idle", i |-> 1, assets |-> <<>>, body |-> NoFile,
            got |-> EmptyDir, ret |-> "none", downloaded |-> FALSE,
            dict_b |-> 0, index_b |-> 0, leftover |-> {}]

StoreIdle ==
    /\ dirs = [d \in {"updater", "app"} |-> EmptyDir]
    /\ release = [exists |-> FALSE, assets |-> EmptyDir]
    /\ upd = UpdIdle
    /\ ldr = LdrIdle

-----------------------------------------------------------------------------
(* The pipeline: data_updater.py __main__, then the app *)

NoFiles == [present |-> FALSE, movies_dict |-> <<>>, index |-> <<>>,
            vectorizer |-> {}]

RecInit(tables) ==
    /\ pc = "fetched"
    /\ fetched \in tables
    /\ df = <<>>
    /\ index = <<>>
    /\ disk = NoFiles
    /\ app = "down"
    /\ movies_df = <<>>
    /\ faiss_index = <<>>
    /\ rec = NoRecommend

Init ==
    /\ RecInit(FetchedTables)
    /\ StoreIdle
    /\ app_dir = "app"
    /\ retry = NoCall

\* pd.DataFrame([]) has no columns: df['overview'] raises KeyError
preprocess_data ==
    /\ pc = "fetched"
    /\ IF Len(fetched) = 0
       THEN pc' = "KeyError" /\ df' = df
       ELSE pc' = "preprocessed" /\ df' = preprocess(fetched)
    /\ UNCHANGED <<fetched, index, disk, app, movies_df, faiss_index, rec>>
    /\ UNCHANGED <<storeVars, retryVars>>

\* CountVectorizer.fit_transform raises ValueError on an empty vocabulary
build_faiss_index ==
    /\ pc = "preprocessed"
    /\ IF Vocabulary(df) = {}
       THEN pc' = "ValueError" /\ index' = index
       ELSE pc' = "built" /\ index' = Vectors(df)
    /\ UNCHANGED <<fetched, df, disk, app, movies_df, faiss_index, rec>>
    /\ UNCHANGED <<storeVars, retryVars>>

save_data ==
    /\ pc = "built"
    /\ disk' = [present |-> TRUE, movies_dict |-> to_dict(df), index |-> index,
                vectorizer |-> Vocabulary(df)]
    /\ pc' = "saved"
    /\ UNCHANGED <<fetched, df, index, app, movies_df, faiss_index, rec>>
    /\ UNCHANGED <<storeVars, retryVars>>

\* No release is published in this pipeline: with a file missing,
\* download_files returns False and the app stops.
load_data_from_github ==
    /\ app \in {"down", "stopped"}
    /\ IF disk.present
       THEN /\ movies_df' = DataFrame(disk.movies_dict)
            /\ faiss_index' = disk.index
            /\ app' = "serving"
       ELSE /\ app' = "stopped"
            /\ UNCHANGED <<movies_df, faiss_index>>
    /\ UNCHANGED <<pc, fetched, df, index, disk, rec>>
    /\ UNCHANGED <<storeVars, retryVars>>

\* main(): one script run calls recommend at most once, on the button.
\* flaky: whether TMDb lookups can fail during the call.
RecommendWith(flaky) ==
    /\ app = "serving"
    /\ rec.outcome = "none"
    /\ \E movie \in Titles \cup {UnknownTitle}, k \in 1..MaxK :
         LET found == movie_indices(movies_df, movie)
             hs == IF Len(found) > 0 /\ reconstruct_ok(faiss_index, found[1])
                   THEN search(faiss_index,
                               reconstruct(faiss_index, found[1]), k + 1)
                   ELSE {<<>>}
         IN \E h \in hs,
               env \in (IF flaky THEN PosterEnvs(k) ELSE PlainEnvs(k)) :
              rec' = recommend(movie, movies_df, faiss_index, k, h, env)
    /\ UNCHANGED <<pc, fetched, df, index, disk, app, movies_df, faiss_index>>
    /\ UNCHANGED <<storeVars, retryVars>>

\* TMDb answers every lookup with a poster
Recommend == RecommendWith(FALSE)

\* TMDb lookups can fail
RecommendFlaky == RecommendWith(TRUE)

\* the script run ends; the next interaction starts a new one
Rerun ==
    /\ app = "serving"
    /\ rec.outcome # "none"
    /\ rec' = NoRecommend
    /\ UNCHANGED <<pc, fetched, df, index, disk, app, movies_df, faiss_index>>
    /\ UNCHANGED <<storeVars, retryVars>>

Next ==
    \/ preprocess_data
    \/ build_faiss_index
    \/ save_data
    \/ load_data_from_github
    \/ Recommend
    \/ Rerun

vars == <<recVars, storeVars, retryVars>>

Spec == Init /\ [][Next]_vars

NextTMDb ==
    \/ preprocess_data
    \/ build_faiss_index
    \/ save_data
    \/ load_data_from_github
    \/ RecommendFlaky
    \/ Rerun

SpecTMDb == Init /\ [][NextTMDb]_vars

-----------------------------------------------------------------------------
(* SpecStore: update_and_release.main and load_data_from_github, one file   *)
(* operation or API call per step.  Builds are numbered; a file or asset    *)
(* carries the number of the build that wrote it.                           *)

UNCHANGED_rec == UNCHANGED <<recVars, retryVars>>

\* main() starts: fetch, preprocess and build put build b in memory
run_update ==
    /\ upd.pc \in {"idle", "done"}
    /\ upd.build < MaxBuilds
    /\ upd' = [pc |-> "save_open", build |-> upd.build + 1, i |-> 1,
               existing |-> {}]
    /\ UNCHANGED <<dirs, app_dir, release, ldr>>
    /\ UNCHANGED_rec

\* save_data: open(path, 'wb') of the i-th file
save_open ==
    /\ upd.pc = "save_open"
    /\ dirs' = [dirs EXCEPT !["updater"][FILES[upd.i]] = Truncated]
    /\ upd' = [upd EXCEPT !.pc = "save_write"]
    /\ UNCHANGED <<app_dir, release, ldr>>
    /\ UNCHANGED_rec

\* save_data: the dump of the i-th file is on disk
save_write ==
    /\ upd.pc = "save_write"
    /\ dirs' = [dirs EXCEPT !["updater"][FILES[upd.i]] = Whole(upd.build)]
    /\ upd' = IF upd.i < Len(FILES)
              THEN [upd EXCEPT !.pc = "save_open", !.i = @ + 1]
              ELSE [upd EXCEPT !.pc = "upload_start", !.i = 1]
    /\ UNCHANGED <<app_dir, release, ldr>>
    /\ UNCHANGED_rec

\* upload_files: create_or_get_release, then the existing_assets snapshot
upload_start ==
    /\ upd.pc = "upload_start"
    /\ release' = [release EXCEPT !.exists = TRUE]
    /\ upd' = [upd EXCEPT !.pc = "up_file", !.i = 1,
                 !.existing = {f \in FileNames : release.assets[f].exists}]
    /\ UNCHANGED <<dirs, app_dir, ldr>>
    /\ UNCHANGED_rec

UpdNextFile(u) ==
    IF u.i < Len(FILES) THEN [u EXCEPT !.pc = "up_file", !.i = @ + 1]
    ELSE [u EXCEPT !.pc = "done"]

\* upload_files: the os.path.exists check and the delete of the old asset;
\* delete_asset is outside the try and its failure ends upload_files
up_file ==
    /\ upd.pc = "up_file"
    /\ LET f == FILES[upd.i]
       IN IF ~dirs["updater"][f].exists
          THEN upd' = UpdNextFile(upd) /\ release' = release
          ELSE IF f \in upd.existing
          THEN \/ /\ release' = [release EXCEPT !.assets[f] = NoFile]
                  /\ upd' = [upd EXCEPT !.pc = "up_upload"]
               \/ /\ release' = release
                  /\ upd' = [upd EXCEPT !.pc = "done"]
          ELSE upd' = [upd EXCEPT !.pc = "up_upload"] /\ release' = release
    /\ UNCHANGED <<dirs, app_dir, ldr>>
    /\ UNCHANGED_rec

\* upload_files: release.upload_asset, whose exception is caught and printed
up_upload ==
    /\ upd.pc = "up_upload"
    /\ LET f == FILES[upd.i]
       IN \/ release' = [release EXCEPT !.assets[f] = dirs["updater"][f]]
          \/ release' = release
    /\ upd' = UpdNextFile(upd)
    /\ UNCHANGED <<dirs, app_dir, ldr>>
    /\ UNCHANGED_rec

\* load_data_from_github: files_exist
load_start ==
    /\ ldr.pc = "idle"
    /\ ldr' = [ldr EXCEPT !.pc =
                 IF \A f \in FileNames : dirs[app_dir][f].exists
                 THEN "load_dict" ELSE "dl_start"]
    /\ UNCHANGED <<dirs, app_dir, release, upd>>
    /\ UNCHANGED_rec

\* the files a run of the asset loop has written so far
Written(got) == {f \in FileNames : got[f].exists}

\* download_files: get_release and the list of its assets
dl_start ==
    /\ ldr.pc = "dl_start"
    /\ LET assets == SeqFilter(FILES, [i \in 1..Len(FILES) |->
                                          release.assets[FILES[i]].exists])
       IN IF ~release.exists \/ assets = <<>>
          THEN ldr' = [ldr EXCEPT !.pc = "stopped", !.ret = "False"]
          ELSE ldr' = [ldr EXCEPT !.pc = "dl_get", !.i = 1, !.assets = assets]
    /\ UNCHANGED <<dirs, app_dir, release, upd>>
    /\ UNCHANGED_rec

\* download_files: requests.get(asset.browser_download_url).  The URL names
\* the asset by tag and file name; the status of the answer is not checked.
dl_get ==
    /\ ldr.pc = "dl_get"
    /\ LET a == release.assets[ldr.assets[ldr.i]]
       IN \/ ldr' = [ldr EXCEPT !.pc = "dl_open",
                        !.body = IF a.exists THEN a ELSE NotFoundBody]
          \/ ldr' = [ldr EXCEPT !.pc = "stopped", !.ret = "False",
                        !.leftover = @ \cup Written(ldr.got)]
    /\ UNCHANGED <<dirs, app_dir, release, upd>>
    /\ UNCHANGED_rec

\* download_files: open(filepath, 'wb')
dl_open ==
    /\ ldr.pc = "dl_open"
    /\ dirs' = [dirs EXCEPT ![app_dir][ldr.assets[ldr.i]] = Truncated]
    /\ ldr' = [ldr EXCEPT !.pc = "dl_write"]
    /\ UNCHANGED <<app_dir, release, upd>>
    /\ UNCHANGED_rec

\* download_files: f.write(response.content), then the next asset or True
dl_write ==
    /\ ldr.pc = "dl_write"
    /\ dirs' = [dirs EXCEPT ![app_dir][ldr.assets[ldr.i]] = ldr.body]
    /\ ldr' = IF ldr.i < Len(ldr.assets)
              THEN [ldr EXCEPT !.pc = "dl_get", !.i = @ + 1,
                               !.got[ldr.assets[ldr.i]] = ldr.body]
              ELSE [ldr EXCEPT !.pc = "load_dict", !.ret = "True",
                               !.downloaded = TRUE,
                               !.got[ldr.assets[ldr.i]] = ldr.body,
                               !.leftover = @ \ Range(ldr.assets)]
    /\ UNCHANGED <<app_dir, release, upd>>
    /\ UNCHANGED_rec

\* load_data_from_github: pickle.load of data/movies_dict.pkl
load_dict ==
    /\ ldr.pc = "load_dict"
    /\ LET f == dirs[app_dir]["movies_dict.pkl"]
       IN ldr' = IF f.exists /\ f.ok
                 THEN [ldr EXCEPT !.pc = "load_index", !.dict_b = f.b]
                 ELSE [ldr EXCEPT !.pc = "stopped"]
    /\ UNCHANGED <<dirs, app_dir, release, upd>>
    /\ UNCHANGED_rec

\* load_data_from_github: faiss.read_index of data/movies.index
load_index ==
    /\ ldr.pc = "load_index"
    /\ LET f == dirs[app_dir]["movies.index"]
       IN ldr' = IF f.exists /\ f.ok
                 THEN [ldr EXCEPT !.pc = "serving", !.index_b = f.b]
                 ELSE [ldr EXCEPT !.pc = "stopped"]
    /\ UNCHANGED <<dirs, app_dir, release, upd>>
    /\ UNCHANGED_rec

\* the app process is started again; what is in data/ stays
restart ==
    /\ ldr.pc \in {"stopped", "serving"}
    /\ ldr' = [LdrIdle EXCEPT !.leftover = ldr.leftover]
    /\ UNCHANGED <<dirs, app_dir, release, upd>>
    /\ UNCHANGED_rec

\* the app runs in the updater's working directory or in one of its own
InitStore ==
    /\ RecInit({<<>>})
    /\ StoreIdle
    /\ app_dir \in {"updater", "app"}
    /\ retry = NoCall

NextStore ==
    \/ run_update
    \/ save_open
    \/ save_write
    \/ upload_start
    \/ up_file
    \/ up_upload
    \/ load_start
    \/ dl_start
    \/ dl_get
    \/ dl_open
    \/ dl_write
    \/ load_dict
    \/ load_index
    \/ restart

SpecStore == InitStore /\ [][NextStore]_vars

-----------------------------------------------------------------------------
(* SpecRetry: a call of fetch_with_retry or fetch_poster, start to return *)

call_fetch_with_retry ==
    /\ retry.fn = "fetch_with_retry"
    /\ ~retry.done
    /\ retry' = [retry EXCEPT
                   !.done = TRUE,
                   !.result = fetch_with_retry(retry.script, retry.max_retries)]
    /\ UNCHANGED <<recVars, storeVars>>

call_fetch_poster ==
    /\ retry.fn = "fetch_poster"
    /\ ~retry.done
    /\ retry' = [retry EXCEPT !.done = TRUE,
                              !.result = fetch_poster(retry.script)]
    /\ UNCHANGED <<recVars, storeVars>>

InitRetry ==
    /\ RecInit({<<>>})
    /\ StoreIdle
    /\ app_dir = "app"
    /\ retry \in RetryCalls

NextRetry ==
    \/ call_fetch_with_retry
    \/ call_fetch_poster

SpecRetry == InitRetry /\ [][NextRetry]_vars

-----------------------------------------------------------------------------
(* Claims about the artifacts *)

ReleasedNames == {f \in FileNames : release.assets[f].exists}

\* C7: at every moment the release of the tag holds the complete triple of
\* one build or nothing, and a download that returns True has obtained the
\* complete triple of one build.
C7_PublishAtomicAtTag ==
    /\ \/ ReleasedNames = {}
       \/ /\ ReleasedNames = FileNames
          /\ \A f, g \in FileNames :
                /\ release.assets[f].ok
                /\ release.assets[f].b = release.assets[g].b
    /\ ldr.ret = "True" =>
          \A f, g \in FileNames :
             /\ ldr.got[f].ok
             /\ ldr.got[f].b = ldr.got[g].b

\* C8: a serving process that loaded the local files save_data writes holds
\* a corpus map and an index of one and the same build.
C8_RebuildAtomicSwap ==
    (ldr.pc = "serving" /\ ~ldr.downloaded) => ldr.dict_b = ldr.index_b

-----------------------------------------------------------------------------
(* Claims about recommend *)

Returned == rec.outcome # "none"

\* the queried title is a title of the loaded corpus
TitlePresent == \E i \in 1..Len(movies_df) : movies_df[i].title = rec.movie

Positions == 0..(Len(faiss_index) - 1)

\* the indices recommend iterated over: indices[0][1:k+1]
UsedIndices == recommended_indices(rec.hits, rec.k)

\* row z has inner product 0 with every other row of the index
Isolated(z) ==
    \A p \in Positions \ {z} : Dot(faiss_index[z + 1], faiss_index[p + 1]) = 0

\* the vector recommend searched with
Searched == faiss_index[rec.reconstruct_arg + 1]

PositiveRows == {p \in Positions : IPPositive(Searched, faiss_index[p + 1])}

\* C1: for a title present in the corpus, the returned titles never contain
\* the queried title itself (ties, zero vectors and duplicate titles included).
C1_NeverReturnsQueriedTitle ==
    (Returned /\ TitlePresent) => rec.movie \notin Range(rec.result[1])

\* C2: a title that matches no row returns ([], []) without raising, without
\* an error report and without calling reconstruct, search or fetch_poster.
C2_UnknownTitleEmpty ==
    (Returned /\ ~TitlePresent) =>
        /\ rec.result = EmptyResult
        /\ ~rec.raised
        /\ rec.outcome = "NotFound"
        /\ rec.calls = NoCalls

C2_Witness ==
    /\ Returned
    /\ ~TitlePresent
    /\ Len(movies_df) > 0
    /\ rec.movie = UnknownTitle

\* C3: the first hit is discarded if and only if it is the query's own row:
\* a first hit that is another row is kept and the own row is removed.
C3_FirstHitDiscardedIffSelf ==
    (rec.outcome = "Ok" /\ rec.hits[1] # rec.query_pos) =>
        /\ rec.hits[1] \in Range(rec.rows)
        /\ rec.query_pos \notin Range(rec.rows)

\* C4: with k > N - 1 recommend returns at most N - 1 results, all of them
\* real rows distinct from each other, and raises no error.
C4_CapsAtCorpusMinusOne ==
    (rec.outcome = "Ok" /\ rec.k > Len(movies_df) - 1) =>
        /\ Len(rec.result[1]) <= Len(movies_df) - 1
        /\ \A i \in 1..Len(UsedIndices) : UsedIndices[i] >= 0
        /\ \A i, j \in 1..Len(rec.rows) : i # j => rec.rows[i] # rec.rows[j]

\* C5: the position recommend passes to index.reconstruct is the position at
\* which build_faiss_index added the queried movie's vector, and a hit p is
\* resolved to the row at p, after save_data and reload and with rows dropped.
C5_RowPositionsAligned ==
    /\ (Returned /\ TitlePresent) => rec.reconstruct_arg = rec.query_pos
    /\ Returned =>
         \A i \in 1..Len(rec.rows) :
             UsedIndices[i] >= 0 => rec.rows[i] = UsedIndices[i]
    /\ app = "serving" => Len(movies_df) = Len(faiss_index)

\* C6: a failed poster lookup never fails the recommendation: the full list
\* of titles is returned, with an absent poster only for the failed lookups.
C6_PosterFailureNotFatal ==
    (Returned /\ rec.calls.search = 1) =>
        /\ Len(rec.result[1]) = Len(UsedIndices)
        /\ Len(rec.result[2]) = Len(UsedIndices)
        /\ rec.result[1] = rec.names

\* C9: an internal inconsistency for a title that is present (the resolved
\* position is no position of the index) is surfaced as a fatal error and is
\* not returned as the empty result of an unknown title.
C9_InconsistencyNotEmptyResult ==
    (Returned /\ TitlePresent /\ ~reconstruct_ok(faiss_index, rec.reconstruct_arg)) =>
        \/ rec.raised
        \/ rec.result # EmptyResult

-----------------------------------------------------------------------------
(* Claims about the retry loops *)

\* the attempt ceiling of the call: max_retries, 5 in fetch_poster
Ceiling == IF retry.fn = "fetch_poster" THEN 5 ELSE retry.max_retries

\* the delay after the failed attempt a (0-based): 2^a seconds in
\* fetch_poster, 2^a + 0.5 seconds, counted in half seconds, in
\* fetch_with_retry
Delay(a) == IF retry.fn = "fetch_poster" THEN Pow2(a) ELSE 2 * Pow2(a) + 1

\* what a successful attempt returns
ValueOf(answer) ==
    IF answer = "json" THEN "json"
    ELSE IF answer = "poster" THEN "poster_url"
    ELSE "None"

Failed(a) == retry.script[a] \in RequestException

Succeeded(a) == retry.script[a] \in {"json", "poster", "no_poster_path"}

\* C11: a finished call of fetch_with_retry or fetch_poster has made at most
\* max_retries (5) attempts; it has slept once after every failed attempt
\* but the last, 2^attempt (+ 0.5) seconds, each delay longer than the one
\* before; it returns the value of the first successful attempt and makes no
\* attempt after it; it returns None when every attempt failed with a
\* request error.
C11_RetryLoopsGiveUp ==
    retry.done =>
        LET r == retry.result
        IN /\ r.attempts <= Ceiling
           /\ \A a \in 1..(r.attempts - 1) : Failed(a)
           /\ Len(r.sleeps) = (IF r.attempts = 0 THEN 0 ELSE r.attempts - 1)
           /\ \A i \in 1..Len(r.sleeps) : r.sleeps[i] = Delay(i - 1)
           /\ \A i \in 1..(Len(r.sleeps) - 1) : r.sleeps[i] < r.sleeps[i + 1]
           /\ \A a \in 1..Ceiling :
                 (Succeeded(a) /\ \A b \in 1..(a - 1) : Failed(b))
                    => /\ r.attempts = a
                       /\ r.value = ValueOf(retry.script[a])
                       /\ ~r.raised
           /\ (\A a \in 1..Ceiling : Failed(a))
                 => r.attempts = Ceiling /\ r.value = "None" /\ ~r.raised

\* fetch_with_retry gives up after five failed attempts and four delays
C11_Witness ==
    /\ retry.done
    /\ retry.fn = "fetch_with_retry"
    /\ retry.max_retries = 5
    /\ \A a \in 1..5 : Failed(a)
    /\ retry.result.attempts = 5
    /\ retry.result.sleeps = <<3, 5, 9, 17>>
    /\ retry.result.value = "None"

-----------------------------------------------------------------------------
(* Claims about the download *)

\* the app has its own data/ directory, which only download_files writes
OwnDirectory == app_dir = "app"

\* this start of the app found the three files and did not download
TakenAsComplete ==
    /\ ldr.pc \in {"load_dict", "load_index", "serving"}
    /\ ~ldr.downloaded

\* C12: when download_files has returned True the three artifacts are in
\* data/ and whole; when it has returned False load_data_from_github has
\* stopped and loaded nothing; and a start of the app that takes the local
\* files as a complete copy finds no file left by a download that returned
\* False.
C12_FetchAllOrNothing ==
    /\ (OwnDirectory /\ ldr.ret = "True") =>
          \A f \in FileNames : dirs[app_dir][f].exists /\ dirs[app_dir][f].ok
    /\ ldr.ret = "False" =>
          ldr.pc = "stopped" /\ ldr.dict_b = 0 /\ ldr.index_b = 0
    /\ (OwnDirectory /\ TakenAsComplete) => ldr.leftover = {}

=============================================================================
